---- MODULE Spec2Model ----
(***************************************************************************)
(* The WebSocket command relay of warmreach: the connection registry       *)
(* (WSCONN# items), the command store (COMMAND# items), the per-user       *)
(* rate-limit counter (RATELIMIT# items) and the four Lambda handlers      *)
(* that read and write them: websocket-connect, websocket-disconnect,      *)
(* websocket-default and command-dispatch.                                 *)
(*                                                                         *)
(* Every handler invocation is one action (one request, one invocation,    *)
(* run to completion).  The API Gateway management API is the              *)
(* environment: each post_to_connection / delete_connection call answers   *)
(* "ok", "gone" (GoneException) or "error" (any other ClientError), drawn  *)
(* by the action.  The DynamoDB table answers every item read and write;   *)
(* only the rate-limit counter update, whose failure the code handles,     *)
(* may answer with an infrastructure error.  GSI1 is read as consistent    *)
(* with the table.  Timestamps (connectedAt, createdAt, updatedAt, ttl)    *)
(* are left out: no handler reads them.                                    *)
(*                                                                         *)
(* Connection ids are opaque and the code knows a connection by its        *)
(* WSCONN# item alone, so an id without item stands for any id the         *)
(* transport has not handed out or whose item is gone: a new connection    *)
(* takes any such id of ConnIds.                                           *)
(*                                                                         *)
(* The circuit breaker of shared_services (one CircuitBreaker object, as   *)
(* the RAGStack client holds one) is modelled beside the relay: its        *)
(* fields, the clock time.time() reads, and one action per public method.  *)
(*                                                                         *)
(* Invocations that overlap are modelled step by step: a create request    *)
(* and a connect request as the sequence of their table and transport      *)
(* calls, each call one action, so that the calls of concurrent            *)
(* invocations interleave in every order.                                  *)
(*                                                                         *)
(* The edge pair of edge-processing (the USER# -> PROFILE# item and the     *)
(* PROFILE# -> USER# item that upsert_status writes) is modelled beside     *)
(* the relay; there each table call may fail.                              *)
(***************************************************************************)
EXTENDS Integers, FiniteSets, Sequences, TLC

\* ------------------------------------------------------------------ bounds
MaxConns == 2          \* connections that hold a registry item at one time
MaxCmds == 1           \* command ids (uuid4) handed out
MaxCalls == 3          \* well-formed create calls in a behaviour of SpecRate
MaxWindow == 1         \* last 60-second window the clock reaches
MaxTime == 4           \* last reading of the breaker's clock
MaxFailures == 6       \* failures the breaker records before a success or reset
MaxAttempts == 2       \* upsert_status calls that reach one reverse edge
RelayCmdIds == {1}     \* the command ids Spec follows through the relay

\* RATE_LIMIT_MAX is read from COMMAND_RATE_LIMIT_MAX (default '10'); the
\* unit test sets it to 2, and so does the model.
RATE_LIMIT_MAX == 2
RATE_LIMIT_WINDOW == 60

\* CircuitBreaker.__init__ defaults; recovery_timeout (60.0 s) is counted
\* in clock steps of 30 s.
failure_threshold == 5
recovery_timeout == 2
half_open_max_calls == 1

Users == {"u1", "u2"}
ClientTypes == {"browser", "agent"}
ConnIds == 1..MaxConns
CmdIds == 1..MaxCmds
Windows == 0..MaxWindow
Outcomes == {"ok", "gone", "error"}
Data == {"r1", "r2"}
Steps == {1, 2}

VARIABLES
  conns,        \* WSCONN#<id> items: the connection registry
  cmds,         \* COMMAND#<id> items: the command store
  nextCmd,      \* the next command id uuid4 yields
  rate,         \* RATELIMIT#cmd#<window> counters, per user and window
  window,       \* now // RATE_LIMIT_WINDOW
  calls,        \* history: well-formed create calls per user and window
  reached,      \* history: those of them whose counter update reached the store
  last,         \* the invocation whose response is being returned: its inputs,
                \* its response and what it pushed; Idle between invocations
  cb,           \* the CircuitBreaker object: _state, _failure_count,
                \* _last_failure_time, _half_open_calls
  clock,        \* time.time()
  cbLast,       \* history: the last method called on the breaker and what it did
  creating,     \* create invocations in flight: the call each one makes next
                \* and its local variables
  connecting,   \* connect invocations in flight, likewise
  edges,        \* the edge items of each (user, profile): forward and reverse
  edgeLast      \* history: the last upsert_status call and how it ended

breaker == <<cb, clock, cbLast>>
stepwise == <<creating, connecting>>
edge == <<edges, edgeLast>>
relay == <<conns, cmds, nextCmd, rate, window, calls, reached, last>>
vars == <<conns, cmds, nextCmd, rate, window, calls, reached, last, cb, clock, cbLast,
          creating, connecting, edges, edgeLast>>

\* ------------------------------------------------------------ the registry
NoConn == [exists |-> FALSE, userSub |-> "none", clientType |-> "none"]

store_connection(reg, c, u, t) ==
  [reg EXCEPT ![c] = [exists |-> TRUE, userSub |-> u, clientType |-> t]]

\* Mutant: the delete addresses no item (a wrong key).
delete_connection_wrongKey(reg, c) ==
  reg

delete_connection(reg, c) ==
  [reg EXCEPT ![c] = NoConn]

get_connection(reg, c) ==
  IF c \in DOMAIN reg THEN reg[c] ELSE NoConn

get_user_connections(reg, u, t) ==
  {c \in DOMAIN reg : reg[c].exists /\ reg[c].userSub = u /\ reg[c].clientType = t}

\* ------------------------------------------------------------- the gateway
\* Mutant: a gone connection is reported but its registry entry is kept.
send_to_connection_keepGone(reg, c, out) ==
  CASE out = "ok"   -> [reg |-> reg, ret |-> "true"]
    [] out = "gone" -> [reg |-> reg, ret |-> "false"]
    [] OTHER        -> [reg |-> reg, ret |-> "raise"]

\* send_to_connection: ret is "true" (delivered), "false" (gone, after the
\* registry entry is deleted) or "raise" (any other ClientError propagates).
send_to_connection(reg, c, out) ==
  CASE out = "ok"   -> [reg |-> reg, ret |-> "true"]
    [] out = "gone" -> [reg |-> delete_connection(reg, c), ret |-> "false"]
    [] OTHER        -> [reg |-> reg, ret |-> "raise"]

\* Mutant: the session is closed but the registry entry is never deleted.
disconnect_connection_noDelete(reg, c, out) ==
  [reg |-> reg, raised |-> out = "error"]

\* Mutant: GoneException is re-raised like any other ClientError.
disconnect_connection_goneRaises(reg, c, out) ==
  IF out # "ok"
  THEN [reg |-> reg, raised |-> TRUE]
  ELSE [reg |-> delete_connection(reg, c), raised |-> FALSE]

\* disconnect_connection: GoneException is passed over; any other
\* ClientError is re-raised before the registry entry is deleted.
disconnect_connection(reg, c, out) ==
  IF out = "error"
  THEN [reg |-> reg, raised |-> TRUE]
  ELSE [reg |-> delete_connection(reg, c), raised |-> FALSE]

\* ------------------------------------------------------------- responses
NoPush == {}
Resp(code, body) ==
  [code |-> code, body |-> body, commandId |-> 0, status |-> "none",
   result |-> "none", error |-> "none", retryAfter |-> 0]
Unhandled == Resp(500, "unhandled exception")

\* trans: the status changes <<from, to>> the invocation wrote to stored commands.
\* env: what the invocation was given: the transport's answers, and for a
\* rejected connect request its clientType and token.
Last(op, user, conn, cmd, env, resp, pushes, trans) ==
  [op |-> op, user |-> user, conn |-> conn, cmd |-> cmd, env |-> env,
   resp |-> resp, pushes |-> pushes, trans |-> trans]

Idle == Last("idle", "none", 0, 0, <<>>, Resp(0, "none"), NoPush, {})

\* The transport takes the response; the next request can be handled.
Return ==
  /\ last # Idle
  /\ last' = Idle
  /\ UNCHANGED <<conns, cmds, nextCmd, rate, window, calls, reached, breaker, stepwise, edge>>

\* --------------------------------------------------------------- $connect
\* Mutant: the first forced disconnect that raises ends the eviction loop.
RECURSIVE EvictLoop_stopOnError(_, _, _, _)
EvictLoop_stopOnError(reg, todo, connection_id, outs) ==
  IF todo = {} THEN reg
  ELSE LET old_id == CHOOSE x \in todo : TRUE
           d == disconnect_connection(reg, old_id, outs[old_id])
       IN IF old_id = connection_id
          THEN EvictLoop_stopOnError(reg, todo \ {old_id}, connection_id, outs)
          ELSE IF d.raised THEN reg
          ELSE EvictLoop_stopOnError(d.reg, todo \ {old_id}, connection_id, outs)

\* The eviction loop of the connect handler (lines 104-111): every existing
\* connection other than the new one is force-disconnected; an exception of
\* one disconnect is logged and the loop goes on.
RECURSIVE EvictLoop(_, _, _, _)
EvictLoop(reg, todo, connection_id, outs) ==
  IF todo = {} THEN reg
  ELSE LET old_id == CHOOSE x \in todo : TRUE
           reg2 == IF old_id # connection_id
                   THEN disconnect_connection(reg, old_id, outs[old_id]).reg
                   ELSE reg
       IN EvictLoop(reg2, todo \ {old_id}, connection_id, outs)

\* Mutant: the record is written before the sub claim is looked at.
ConnectHandler_storeFirst(reg, connection_id, client_type, token, outs) ==
  IF client_type \notin ClientTypes
  THEN [reg |-> reg, resp |-> Resp(400, "Invalid clientType")]
  ELSE IF token = "missing"
  THEN [reg |-> reg, resp |-> Resp(401, "Missing token")]
  ELSE IF token = "invalid"
  THEN [reg |-> reg, resp |-> Resp(401, "Invalid token")]
  ELSE IF token = "nosub"
  THEN [reg |-> store_connection(reg, connection_id, "none", client_type),
        resp |-> Resp(401, "Invalid token: no sub claim")]
  ELSE LET user_sub == token
           existing == get_user_connections(reg, user_sub, client_type)
           reg2 == EvictLoop(reg, existing, connection_id, outs)
       IN [reg |-> store_connection(reg2, connection_id, user_sub, client_type),
           resp |-> Resp(200, "Connected")]

ConnectHandler(reg, connection_id, client_type, token, outs) ==
  IF client_type \notin ClientTypes
  THEN [reg |-> reg, resp |-> Resp(400, "Invalid clientType")]
  ELSE IF token = "missing"
  THEN [reg |-> reg, resp |-> Resp(401, "Missing token")]
  ELSE IF token = "invalid"
  THEN [reg |-> reg, resp |-> Resp(401, "Invalid token")]
  ELSE IF token = "nosub"
  THEN [reg |-> reg, resp |-> Resp(401, "Invalid token: no sub claim")]
  ELSE LET user_sub == token
           existing == get_user_connections(reg, user_sub, client_type)
           reg2 == EvictLoop(reg, existing, connection_id, outs)
       IN [reg |-> store_connection(reg2, connection_id, user_sub, client_type),
           resp |-> Resp(200, "Connected")]

Tokens == Users \cup {"missing", "invalid", "nosub"}

Connect(connection_id, client_type, token) ==
  /\ last = Idle
  /\ ~conns[connection_id].exists
  /\ LET existing == IF token \in Users /\ client_type \in ClientTypes
                     THEN get_user_connections(conns, token, client_type)
                     ELSE {}
     IN \E outs \in [existing -> Outcomes] :
       LET h == ConnectHandler(conns, connection_id, client_type, token, outs)
       IN /\ conns' = h.reg
          /\ last' = Last("connect", IF token \in Users THEN token ELSE "none",
                          connection_id, 0,
                          IF h.resp.code = 200 THEN [c \in existing |-> outs[c]]
                          ELSE <<client_type, token>>,
                          h.resp, NoPush, {})
  /\ UNCHANGED <<cmds, nextCmd, rate, window, calls, reached, breaker, stepwise, edge>>

\* ------------------------------------------------------------ $disconnect
DisconnectHandler(reg, connection_id) ==
  [reg |-> delete_connection(reg, connection_id), resp |-> Resp(200, "Disconnected")]

Disconnect(c) ==
  /\ last = Idle
  /\ LET h == DisconnectHandler(conns, c)
     IN /\ conns' = h.reg
        /\ last' = Last("disconnect", get_connection(conns, c).userSub, c, 0, <<>>,
                        h.resp, NoPush, {})
  /\ UNCHANGED <<cmds, nextCmd, rate, window, calls, reached, breaker, stepwise, edge>>

\* ----------------------------------------------------------- the commands
NoCmd == [exists |-> FALSE, cognitoSub |-> "none", type |-> "none", status |-> "none",
          progress |-> <<>>, result |-> "none",
          errorCode |-> "none", errorMessage |-> "none"]

\* table.put_item of a new COMMAND# item (lines 161-173).
put_command(tbl, k, u, ty) ==
  [tbl EXCEPT ![k] = [NoCmd EXCEPT !.exists = TRUE, !.cognitoSub = u,
                                   !.type = ty, !.status = "pending"]]

\* table.update_item ... SET #s = :s: unconditional, whatever the stored status.
set_status(tbl, k, s) ==
  [tbl EXCEPT ![k].status = s]

get_command_item(tbl, k) ==
  IF k \in DOMAIN tbl THEN tbl[k] ELSE NoCmd

\* ---------------------------------------------------------------- fan-out
Perms(S) ==
  {f \in [1..Cardinality(S) -> S] : \A i, j \in 1..Cardinality(S) : f[i] = f[j] => i = j}

Push(c, msg, out) == [to |-> c, msg |-> msg, out |-> out]
Msg(action, k, data) == [action |-> action, commandId |-> k, data |-> data]

\* for bc in browser_conns: ws_service.send_to_connection(bc, message).
\* The first send that raises ends the loop and the handler.
RECURSIVE SendLoop(_, _, _, _, _)
SendLoop(reg, order, outs, msg, i) ==
  IF i > Len(order) THEN [reg |-> reg, pushes |-> {}, raised |-> FALSE]
  ELSE LET bc == order[i]
           s == send_to_connection(reg, bc, outs[bc])
       IN IF s.ret = "raise"
          THEN [reg |-> s.reg, pushes |-> {Push(bc, msg, outs[bc])}, raised |-> TRUE]
          ELSE LET rest == SendLoop(s.reg, order, outs, msg, i + 1)
               IN [reg |-> rest.reg,
                   pushes |-> {Push(bc, msg, outs[bc])} \cup rest.pushes,
                   raised |-> rest.raised]

\* ------------------------------------------------------- command-dispatch
\* Mutant: the ceiling is compared with <= (one call too many passes).
check_rate_limit_offByOne(rt, u, w, storeUp) ==
  IF ~storeUp THEN [rate |-> rt, allowed |-> TRUE]
  ELSE IF rt[u][w] <= RATE_LIMIT_MAX
  THEN [rate |-> [rt EXCEPT ![u][w] = @ + 1], allowed |-> TRUE]
  ELSE [rate |-> rt, allowed |-> FALSE]

\* Mutant: an unreachable counter store rejects the call.
check_rate_limit_failClosed(rt, u, w, storeUp) ==
  IF ~storeUp THEN [rate |-> rt, allowed |-> FALSE]
  ELSE IF rt[u][w] < RATE_LIMIT_MAX
  THEN [rate |-> [rt EXCEPT ![u][w] = @ + 1], allowed |-> TRUE]
  ELSE [rate |-> rt, allowed |-> FALSE]

\* Mutant: the counter is added to without the ceiling condition.
check_rate_limit_noCondition(rt, u, w, storeUp) ==
  IF ~storeUp THEN [rate |-> rt, allowed |-> TRUE]
  ELSE [rate |-> [rt EXCEPT ![u][w] = @ + 1], allowed |-> TRUE]

\* _check_rate_limit: one conditional update of the window's counter.
\* storeUp = FALSE is any error other than ConditionalCheckFailedException.
check_rate_limit(rt, u, w, storeUp) ==
  IF ~storeUp THEN [rate |-> rt, allowed |-> TRUE]
  ELSE IF rt[u][w] < RATE_LIMIT_MAX
  THEN [rate |-> [rt EXCEPT ![u][w] = @ + 1], allowed |-> TRUE]
  ELSE [rate |-> rt, allowed |-> FALSE]

\* Mutant: a gone agent leaves the command as it was put (pending).
after_send_noFail(tbl, k, ret) ==
  IF ret = "true" THEN set_status(tbl, k, "dispatched") ELSE tbl

\* Mutant: a delivered push marks the command executing at once.
after_send_executing(tbl, k, ret) ==
  IF ret = "false" THEN set_status(tbl, k, "failed")
  ELSE IF ret = "true" THEN set_status(tbl, k, "executing")
  ELSE tbl

\* What create writes after the push to the agent came back.
after_send(tbl, k, ret) ==
  IF ret = "false" THEN set_status(tbl, k, "failed")
  ELSE IF ret = "true" THEN set_status(tbl, k, "dispatched")
  ELSE tbl

CreateResult(reg, tbl, rt, created, resp, pushes) ==
  [reg |-> reg, tbl |-> tbl, rate |-> rt, created |-> created, resp |-> resp,
   pushes |-> pushes]

\* Mutant: the record is put before the agent lookup.
CreateCommand_putFirst(reg, tbl, rt, w, command_id, user_sub, hasType, storeUp, agent_conn, agentOut, order, outs) ==
  IF user_sub = "none"
  THEN CreateResult(reg, tbl, rt, FALSE, Resp(401, "Authentication required"), {})
  ELSE IF ~hasType
  THEN CreateResult(reg, tbl, rt, FALSE, Resp(400, "type is required"), {})
  ELSE LET rl == check_rate_limit(rt, user_sub, w, storeUp) IN
  IF ~rl.allowed
  THEN CreateResult(reg, tbl, rl.rate, FALSE,
         [Resp(429, "RATE_LIMITED") EXCEPT !.retryAfter = RATE_LIMIT_WINDOW], {})
  ELSE IF get_user_connections(reg, user_sub, "agent") = {}
  THEN CreateResult(reg, put_command(tbl, command_id, user_sub, "search"), rl.rate, FALSE,
                    Resp(409, "No agent connected"), {})
  ELSE LET tbl1 == put_command(tbl, command_id, user_sub, "search")
           exec == Msg("execute", command_id, <<"search">>)
           s == send_to_connection(reg, agent_conn, agentOut)
           p0 == {Push(agent_conn, exec, agentOut)}
           tbl2 == after_send(tbl1, command_id, s.ret)
       IN IF s.ret = "raise"
          THEN CreateResult(s.reg, tbl2, rl.rate, TRUE, Unhandled, p0)
          ELSE IF s.ret = "false"
          THEN CreateResult(s.reg, tbl2, rl.rate, TRUE,
                 [Resp(503, "Agent disconnected") EXCEPT !.commandId = command_id,
                                                         !.status = "failed"], p0)
          ELSE LET f == SendLoop(s.reg, order, outs,
                                 Msg("command_queued", command_id, <<>>), 1)
               IN CreateResult(f.reg, tbl2, rl.rate, TRUE,
                    IF f.raised THEN Unhandled
                    ELSE [Resp(200, "ok") EXCEPT !.commandId = command_id,
                                                 !.status = "dispatched"],
                    p0 \cup f.pushes)

\* lambda_handler (POST /commands) and _create_command.
CreateCommand(reg, tbl, rt, w, command_id, user_sub, hasType, storeUp, agent_conn, agentOut, order, outs) ==
  IF user_sub = "none"
  THEN CreateResult(reg, tbl, rt, FALSE, Resp(401, "Authentication required"), {})
  ELSE IF ~hasType
  THEN CreateResult(reg, tbl, rt, FALSE, Resp(400, "type is required"), {})
  ELSE LET rl == check_rate_limit(rt, user_sub, w, storeUp) IN
  IF ~rl.allowed
  THEN CreateResult(reg, tbl, rl.rate, FALSE,
         [Resp(429, "RATE_LIMITED") EXCEPT !.retryAfter = RATE_LIMIT_WINDOW], {})
  ELSE IF get_user_connections(reg, user_sub, "agent") = {}
  THEN CreateResult(reg, tbl, rl.rate, FALSE, Resp(409, "No agent connected"), {})
  ELSE LET tbl1 == put_command(tbl, command_id, user_sub, "search")
           exec == Msg("execute", command_id, <<"search">>)
           s == send_to_connection(reg, agent_conn, agentOut)
           p0 == {Push(agent_conn, exec, agentOut)}
           tbl2 == after_send(tbl1, command_id, s.ret)
       IN IF s.ret = "raise"
          THEN CreateResult(s.reg, tbl2, rl.rate, TRUE, Unhandled, p0)
          ELSE IF s.ret = "false"
          THEN CreateResult(s.reg, tbl2, rl.rate, TRUE,
                 [Resp(503, "Agent disconnected") EXCEPT !.commandId = command_id,
                                                         !.status = "failed"], p0)
          ELSE LET f == SendLoop(s.reg, order, outs,
                                 Msg("command_queued", command_id, <<>>), 1)
               IN CreateResult(f.reg, tbl2, rl.rate, TRUE,
                    IF f.raised THEN Unhandled
                    ELSE [Resp(200, "ok") EXCEPT !.commandId = command_id,
                                                 !.status = "dispatched"],
                    p0 \cup f.pushes)

\* The status change create's update_item makes to the item it has put.
CreateTrans(tbl1, tbl2, k) ==
  IF tbl2[k].status # tbl1[k].status
  THEN {<<tbl1[k].status, tbl2[k].status>>} ELSE {}

Create(user_sub, hasType, storeUp) ==
  /\ last = Idle
  /\ LET agents == IF user_sub = "none" THEN {}
                   ELSE get_user_connections(conns, user_sub, "agent")
         passes == user_sub # "none" /\ hasType
                     /\ check_rate_limit(rate, user_sub, window, storeUp).allowed
         creates == passes /\ agents # {}
     IN /\ creates => nextCmd <= MaxCmds
        /\ \E agent_conn \in IF creates THEN agents ELSE {0},
              agentOut \in IF creates THEN Outcomes ELSE {"ok"} :
             LET reg1 == IF creates
                         THEN send_to_connection(conns, agent_conn, agentOut).reg
                         ELSE conns
                 browsers == IF creates /\ agentOut = "ok"
                             THEN get_user_connections(reg1, user_sub, "browser")
                             ELSE {}
             IN \E order \in Perms(browsers), outs \in [browsers -> Outcomes] :
                  LET h == CreateCommand(conns, cmds, rate, window, nextCmd, user_sub,
                                         hasType, storeUp, agent_conn, agentOut,
                                         order, outs)
                  IN /\ conns' = h.reg
                     /\ cmds' = h.tbl
                     /\ rate' = h.rate
                     /\ nextCmd' = IF h.created THEN nextCmd + 1 ELSE nextCmd
                     /\ last' = Last("create", user_sub, agent_conn,
                                     IF h.created THEN nextCmd ELSE 0,
                                     <<hasType, storeUp, agentOut>>, h.resp, h.pushes,
                                     IF h.created
                                     THEN CreateTrans(put_command(cmds, nextCmd, user_sub,
                                                                  "search"), h.tbl, nextCmd)
                                     ELSE {})
  /\ calls' = IF user_sub # "none" /\ hasType
              THEN [calls EXCEPT ![user_sub][window] = @ + 1] ELSE calls
  /\ reached' = IF user_sub # "none" /\ hasType /\ storeUp
                THEN [reached EXCEPT ![user_sub][window] = @ + 1] ELSE reached
  /\ UNCHANGED <<window, breaker, stepwise, edge>>

\* Mutant: another user's command is answered 403 instead of 404.
GetCommand_forbidden(tbl, command_id, user_sub) ==
  LET item == get_command_item(tbl, command_id) IN
  IF ~item.exists THEN Resp(404, "Command not found")
  ELSE IF item.cognitoSub # user_sub THEN Resp(403, "Forbidden")
  ELSE [Resp(200, "ok") EXCEPT !.commandId = command_id, !.status = item.status,
                               !.result = item.result, !.error = item.errorMessage]

\* _get_command (GET /commands/{commandId}).
GetCommand(tbl, command_id, user_sub) ==
  LET item == get_command_item(tbl, command_id) IN
  IF ~item.exists THEN Resp(404, "Command not found")
  ELSE IF item.cognitoSub # user_sub THEN Resp(404, "Command not found")
  ELSE [Resp(200, "ok") EXCEPT !.commandId = command_id, !.status = item.status,
                               !.result = item.result, !.error = item.errorMessage]

GetStatus(user_sub, command_id) ==
  /\ last = Idle
  /\ last' = Last("get", user_sub, 0, command_id, <<>>,
                  GetCommand(cmds, command_id, user_sub), NoPush, {})
  /\ UNCHANGED <<conns, cmds, nextCmd, rate, window, calls, reached, breaker, stepwise, edge>>

\* ------------------------------------------------------ websocket-default
\* Mutant: the owner comparison is left out.
validate_command_ownership_noOwner(reg, tbl, connection_id, command_id) ==
  LET conn == get_connection(reg, connection_id)
      cmd == get_command_item(tbl, command_id)
  IN IF ~conn.exists THEN "Connection not found"
     ELSE IF ~cmd.exists THEN "Command not found"
     ELSE ""

\* Mutant: only an agent connection may report on a command.
validate_command_ownership_agentOnly(reg, tbl, connection_id, command_id) ==
  LET conn == get_connection(reg, connection_id)
      cmd == get_command_item(tbl, command_id)
  IN IF ~conn.exists THEN "Connection not found"
     ELSE IF ~cmd.exists THEN "Command not found"
     ELSE IF cmd.cognitoSub # conn.userSub \/ conn.clientType # "agent"
     THEN "Not authorized"
     ELSE ""

\* _validate_command_ownership: "" when the sender owns the command.
validate_command_ownership(reg, tbl, connection_id, command_id) ==
  LET conn == get_connection(reg, connection_id)
      cmd == get_command_item(tbl, command_id)
  IN IF ~conn.exists THEN "Connection not found"
     ELSE IF ~cmd.exists THEN "Command not found"
     ELSE IF cmd.cognitoSub # conn.userSub THEN "Not authorized"
     ELSE ""

\* The update_item of each handler: SET status and the event's fields,
\* with no condition on the stored status.
update_progress(tbl, k, step, total, message) ==
  [tbl EXCEPT ![k].status = "executing", ![k].progress = <<step, total, message>>]

update_result(tbl, k, data) ==
  [tbl EXCEPT ![k].status = "completed", ![k].result = data]

update_error(tbl, k, code, message) ==
  [tbl EXCEPT ![k].status = "failed", ![k].errorCode = code, ![k].errorMessage = message]

EventUpdate(tbl, action, k, f) ==
  CASE action = "progress" -> update_progress(tbl, k, f[1], f[2], f[3])
    [] action = "result"   -> update_result(tbl, k, f[1])
    [] action = "error"    -> update_error(tbl, k, f[1], f[2])

ForwardAction(action) ==
  CASE action = "progress" -> "command_progress"
    [] action = "result"   -> "command_result"
    [] action = "error"    -> "command_error"

EventResult(reg, tbl, resp, pushes) ==
  [reg |-> reg, tbl |-> tbl, resp |-> resp, pushes |-> pushes]

\* _forward_to_browser: the browser connections of the command's owner,
\* each sent the message in the order the query returned them.
forward_to_browser(reg, order, outs, msg) ==
  SendLoop(reg, order, outs, msg, 1)

\* _handle_progress, _handle_result, _handle_error: command_id 0 is a body
\* without commandId; f holds the event's fields.
HandleEvent(reg, tbl, action, connection_id, command_id, f, order, outs) ==
  IF command_id = 0
  THEN EventResult(reg, tbl, Resp(200, "Missing commandId"), {})
  ELSE LET err == validate_command_ownership(reg, tbl, connection_id, command_id) IN
  IF err # ""
  THEN EventResult(reg, tbl, Resp(200, err), {})
  ELSE LET tbl2 == EventUpdate(tbl, action, command_id, f)
           fw == forward_to_browser(reg, order, outs,
                                    Msg(ForwardAction(action), command_id, f))
       IN EventResult(fw.reg, tbl2,
                      IF fw.raised THEN Unhandled ELSE Resp(200, "ok"), fw.pushes)

\* Mutant: the echo goes out without the gateway's cleanup of a gone session.
HandleHeartbeat_noCleanup(reg, tbl, connection_id, out) ==
  LET s == send_to_connection(reg, connection_id, out)
  IN EventResult(reg, tbl,
                 IF s.ret = "raise" THEN Unhandled ELSE Resp(200, "ok"),
                 {Push(connection_id, Msg("heartbeat", 0, <<"echo">>), out)})

\* _handle_heartbeat: one echo to the sender; the send's return is not read.
HandleHeartbeat(reg, tbl, connection_id, out) ==
  LET s == send_to_connection(reg, connection_id, out)
  IN EventResult(s.reg, tbl,
                 IF s.ret = "raise" THEN Unhandled ELSE Resp(200, "ok"),
                 {Push(connection_id, Msg("heartbeat", 0, <<"echo">>), out)})

\* lambda_handler: an action with no registered handler is acknowledged.
HandleUnknown(reg, tbl) ==
  EventResult(reg, tbl, Resp(200, "Unknown action"), {})

EventFields(action) ==
  CASE action = "progress" -> {<<st, 2, "m">> : st \in Steps}
    [] action = "result"   -> {<<d>> : d \in Data}
    [] action = "error"    -> {<<"E1", "boom">>}

EventActions == {"progress", "result", "error"}

Event(action, c, k) ==
  /\ last = Idle
  /\ LET accepted == k # 0 /\ validate_command_ownership(conns, cmds, c, k) = ""
         browsers == IF accepted
                     THEN get_user_connections(conns, cmds[k].cognitoSub, "browser")
                     ELSE {}
     IN \E f \in IF accepted THEN EventFields(action) ELSE {<<>>}, order \in Perms(browsers),
           outs \in [browsers -> Outcomes] :
          LET h == HandleEvent(conns, cmds, action, c, k, f, order, outs)
          IN /\ conns' = h.reg
             /\ cmds' = h.tbl
             /\ last' = Last(action, get_connection(conns, c).userSub, c, k, f,
                             h.resp, h.pushes,
                             IF accepted /\ h.tbl[k].status # cmds[k].status
                             THEN {<<cmds[k].status, h.tbl[k].status>>} ELSE {})
  /\ UNCHANGED <<nextCmd, rate, window, calls, reached, breaker, stepwise, edge>>

Heartbeat(c, out) ==
  /\ last = Idle
  /\ LET h == HandleHeartbeat(conns, cmds, c, out)
     IN /\ conns' = h.reg
        /\ cmds' = h.tbl
        /\ last' = Last("heartbeat", get_connection(conns, c).userSub, c, 0, <<out>>,
                        h.resp, h.pushes, {})
  /\ UNCHANGED <<nextCmd, rate, window, calls, reached, breaker, stepwise, edge>>

Unknown(c) ==
  /\ last = Idle
  /\ LET h == HandleUnknown(conns, cmds)
     IN /\ conns' = h.reg
        /\ cmds' = h.tbl
        /\ last' = Last("unknown", get_connection(conns, c).userSub, c, 0, <<>>,
                        h.resp, h.pushes, {})
  /\ UNCHANGED <<nextCmd, rate, window, calls, reached, breaker, stepwise, edge>>

\* The clock moves into the next 60-second window.
Tick ==
  /\ last = Idle
  /\ window < MaxWindow
  /\ window' = window + 1
  /\ UNCHANGED <<conns, cmds, nextCmd, rate, calls, reached, last, breaker, stepwise, edge>>

\* ------------------------------------------------------- circuit breaker
NoTime == -1      \* _last_failure_time is None

NewBreaker ==
  [state |-> "closed", failure_count |-> 0, last_failure_time |-> NoTime,
   half_open_calls |-> 0]

\* Mutant: recovery is attempted at once.
should_attempt_recovery_always(b, t) ==
  TRUE

\* _should_attempt_recovery
should_attempt_recovery(b, t) ==
  IF b.last_failure_time = NoTime THEN TRUE
  ELSE t - b.last_failure_time >= recovery_timeout

\* The state property: reading it moves an open breaker whose recovery is
\* due to half_open.
state(b, t) ==
  IF b.state = "open" /\ should_attempt_recovery(b, t)
  THEN [b EXCEPT !.state = "half_open", !.half_open_calls = 0]
  ELSE b

on_success(b) ==
  [b EXCEPT !.state = "closed", !.failure_count = 0, !.last_failure_time = NoTime,
            !.half_open_calls = 0]

\* Mutant: the breaker trips one failure late.
on_failure_tripLate(b, t) ==
  LET c == [b EXCEPT !.failure_count = @ + 1, !.last_failure_time = t]
  IN IF b.state = "half_open" THEN [c EXCEPT !.state = "open"]
     ELSE IF c.failure_count > failure_threshold THEN [c EXCEPT !.state = "open"]
     ELSE c

on_failure(b, t) ==
  LET c == [b EXCEPT !.failure_count = @ + 1, !.last_failure_time = t]
  IN IF b.state = "half_open" THEN [c EXCEPT !.state = "open"]
     ELSE IF c.failure_count >= failure_threshold THEN [c EXCEPT !.state = "open"]
     ELSE c

reset(b) ==
  [b EXCEPT !.state = "closed", !.failure_count = 0, !.last_failure_time = NoTime,
            !.half_open_calls = 0]

\* call: ok is whether the wrapped function returns; raised is "none",
\* "open" (CircuitBreakerOpenError) or "func" (the function's exception).
call(b, t, ok) ==
  LET b1 == state(b, t)
      current_state == b1.state
  IN IF current_state = "open"
     THEN [cb |-> b1, invoked |-> FALSE, raised |-> "open"]
     ELSE IF current_state = "half_open" /\ b1.half_open_calls >= half_open_max_calls
     THEN [cb |-> b1, invoked |-> FALSE, raised |-> "open"]
     ELSE LET b2 == IF current_state = "half_open"
                    THEN [b1 EXCEPT !.half_open_calls = @ + 1] ELSE b1
          IN IF ok
             THEN [cb |-> on_success(b2), invoked |-> TRUE, raised |-> "none"]
             ELSE [cb |-> on_failure(b2, t), invoked |-> TRUE, raised |-> "func"]

\* streak: failures recorded since the last recorded success, reset or
\* construction; seq tells one method call from the next.
CbLast(op, invoked, raised, streak) ==
  [op |-> op, invoked |-> invoked, raised |-> raised, streak |-> streak,
   seq |-> 1 - cbLast.seq]

CbCall(ok) ==
  /\ ~ok => cb.failure_count < MaxFailures
  /\ LET r == call(cb, clock, ok)
     IN /\ cb' = r.cb
        /\ cbLast' = CbLast("call", r.invoked, r.raised,
                            IF r.raised = "none" THEN 0
                            ELSE IF r.raised = "func" THEN cbLast.streak + 1
                            ELSE cbLast.streak)
  /\ UNCHANGED <<clock, relay, stepwise, edge>>

CbOnSuccess ==
  /\ cb' = on_success(cb)
  /\ cbLast' = CbLast("on_success", FALSE, "none", 0)
  /\ UNCHANGED <<clock, relay, stepwise, edge>>

CbOnFailure ==
  /\ cb.failure_count < MaxFailures
  /\ cb' = on_failure(cb, clock)
  /\ cbLast' = CbLast("on_failure", FALSE, "none", cbLast.streak + 1)
  /\ UNCHANGED <<clock, relay, stepwise, edge>>

CbState ==
  /\ cb' = state(cb, clock)
  /\ cbLast' = CbLast("state", FALSE, "none", cbLast.streak)
  /\ UNCHANGED <<clock, relay, stepwise, edge>>

CbReset ==
  /\ cb' = reset(cb)
  /\ cbLast' = CbLast("reset", FALSE, "none", 0)
  /\ UNCHANGED <<clock, relay, stepwise, edge>>

Elapse ==
  /\ clock < MaxTime
  /\ clock' = clock + 1
  /\ cbLast' = CbLast("elapse", FALSE, "none", cbLast.streak)
  /\ UNCHANGED <<cb, relay, stepwise, edge>>

\* ------------------------------------------------ overlapping invocations
\* A create invocation (command-dispatch) call by call.  pc is the call
\* the invocation makes next; user, w, passed, agent, cmd, ret are its
\* local variables (user_sub, window_key, the rate check's answer,
\* agent_conn, command_id, sent).
Procs == 1..MaxCalls
RaceProcs == {1}

NoProc ==
  [pc |-> "idle", user |-> "none", w |-> 0, passed |-> FALSE, agent |-> 0, cmd |-> 0,
   ret |-> "none", resp |-> Resp(0, "none")]

Finish(proc, resp) == [proc EXCEPT !.pc = "done", !.resp = resp]

\* Mutant: the execute message is pushed before the command is put.
NextCall_sendFirst(at) ==
  CASE at = "check"  -> "lookup"
    [] at = "lookup" -> "send"
    [] at = "send"   -> "put"
    [] at = "put"    -> "update"
    [] at = "update" -> "notify"
    [] at = "notify" -> "done"

\* _create_command: the order of its calls: rate check, agent lookup,
\* put_item, push of execute, update_item of the status, notifications.
NextCall(at) ==
  CASE at = "check"  -> "lookup"
    [] at = "lookup" -> "put"
    [] at = "put"    -> "send"
    [] at = "send"   -> "update"
    [] at = "update" -> "notify"
    [] at = "notify" -> "done"

\* lambda_handler up to and with _check_rate_limit: one conditional update_item.
CrCheck(p, user_sub, hasType, storeUp) ==
  /\ creating[p].pc = "idle"
  /\ IF user_sub = "none"
     THEN /\ creating' = [creating EXCEPT ![p] =
                            Finish(@, Resp(401, "Authentication required"))]
          /\ rate' = rate
     ELSE IF ~hasType
     THEN /\ creating' = [creating EXCEPT ![p] =
                            Finish([@ EXCEPT !.user = user_sub], Resp(400, "type is required"))]
          /\ rate' = rate
     ELSE LET rl == check_rate_limit(rate, user_sub, window, storeUp)
              mine == [NoProc EXCEPT !.user = user_sub, !.w = window,
                                     !.passed = rl.allowed]
          IN /\ rate' = rl.rate
             /\ creating' = [creating EXCEPT ![p] =
                   IF rl.allowed THEN [mine EXCEPT !.pc = NextCall("check")]
                   ELSE Finish(mine, [Resp(429, "RATE_LIMITED")
                                        EXCEPT !.retryAfter = RATE_LIMIT_WINDOW])]
  /\ UNCHANGED <<conns, cmds, nextCmd, window, calls, reached, last, connecting,
                 breaker, edge>>

\* get_user_connections(user_sub, 'agent'), agent_conns[0] and uuid4.
CrLookup(p) ==
  /\ creating[p].pc = "lookup"
  /\ LET agents == get_user_connections(conns, creating[p].user, "agent")
     IN IF agents = {}
        THEN /\ creating' = [creating EXCEPT ![p] =
                               Finish(@, Resp(409, "No agent connected"))]
             /\ nextCmd' = nextCmd
        ELSE /\ nextCmd <= MaxCmds
             /\ \E agent_conn \in agents :
                  creating' = [creating EXCEPT ![p].pc = NextCall("lookup"),
                                               ![p].agent = agent_conn,
                                               ![p].cmd = nextCmd]
             /\ nextCmd' = nextCmd + 1
  /\ UNCHANGED <<conns, cmds, rate, window, calls, reached, last, connecting,
                 breaker, edge>>

\* table.put_item of the command, status pending.
CrPut(p) ==
  /\ creating[p].pc = "put"
  /\ cmds' = put_command(cmds, creating[p].cmd, creating[p].user, "search")
  /\ creating' = [creating EXCEPT ![p].pc = NextCall("put")]
  /\ UNCHANGED <<conns, nextCmd, rate, window, calls, reached, last, connecting,
                 breaker, edge>>

\* ws_service.send_to_connection(agent_conn, execute message).
CrSend(p, out) ==
  /\ creating[p].pc = "send"
  /\ LET s == send_to_connection(conns, creating[p].agent, out)
     IN /\ conns' = s.reg
        /\ creating' = [creating EXCEPT ![p] =
              IF s.ret = "raise" THEN Finish([@ EXCEPT !.ret = s.ret], Unhandled)
              ELSE [@ EXCEPT !.pc = NextCall("send"), !.ret = s.ret]]
  /\ UNCHANGED <<cmds, nextCmd, rate, window, calls, reached, last, connecting,
                 breaker, edge>>

\* The update_item after the push: failed and 503 when sent is False,
\* dispatched otherwise; neither carries a condition.
CrUpdate(p) ==
  /\ creating[p].pc = "update"
  /\ cmds' = after_send(cmds, creating[p].cmd, creating[p].ret)
  /\ creating' = [creating EXCEPT ![p] =
        IF @.ret = "false"
        THEN Finish(@, [Resp(503, "Agent disconnected") EXCEPT !.commandId = creating[p].cmd,
                                                               !.status = "failed"])
        ELSE [@ EXCEPT !.pc = NextCall("update")]]
  /\ UNCHANGED <<conns, nextCmd, rate, window, calls, reached, last, connecting,
                 breaker, edge>>

\* The command_queued notifications and the 200 response.
CrNotify(p) ==
  /\ creating[p].pc = "notify"
  /\ LET browsers == get_user_connections(conns, creating[p].user, "browser")
     IN \E order \in Perms(browsers), outs \in [browsers -> Outcomes] :
          LET f == SendLoop(conns, order, outs,
                            Msg("command_queued", creating[p].cmd, <<>>), 1)
          IN /\ conns' = f.reg
             /\ creating' = [creating EXCEPT ![p] =
                   Finish(@, IF f.raised THEN Unhandled
                             ELSE [Resp(200, "ok") EXCEPT !.commandId = creating[p].cmd,
                                                          !.status = "dispatched"])]
  /\ UNCHANGED <<cmds, nextCmd, rate, window, calls, reached, last, connecting,
                 breaker, edge>>

\* A connect invocation (websocket-connect) call by call: the registry
\* query, one forced disconnect per incumbent, the registration.
Joiners == 1..MaxConns

NoJoin ==
  [pc |-> "idle", conn |-> 0, user |-> "none", type |-> "none", todo |-> {},
   resp |-> Resp(0, "none")]

\* lambda_handler up to and with get_user_connections(user_sub, client_type).
JnQuery(p, connection_id, client_type, token) ==
  /\ connecting[p].pc = "idle"
  /\ ~conns[connection_id].exists
  /\ \A q \in Joiners : connecting[q].conn # connection_id
  /\ connecting' = [connecting EXCEPT ![p] =
        LET mine == [NoJoin EXCEPT !.conn = connection_id] IN
        IF client_type \notin ClientTypes
        THEN [mine EXCEPT !.pc = "done", !.resp = Resp(400, "Invalid clientType")]
        ELSE IF token = "missing"
        THEN [mine EXCEPT !.pc = "done", !.resp = Resp(401, "Missing token")]
        ELSE IF token = "invalid"
        THEN [mine EXCEPT !.pc = "done", !.resp = Resp(401, "Invalid token")]
        ELSE IF token = "nosub"
        THEN [mine EXCEPT !.pc = "done", !.resp = Resp(401, "Invalid token: no sub claim")]
        ELSE [mine EXCEPT !.pc = "evict", !.user = token, !.type = client_type,
                          !.todo = get_user_connections(conns, token, client_type)]]
  /\ UNCHANGED <<relay, creating, breaker, edge>>

\* One turn of the eviction loop: disconnect_connection(old_id), an
\* exception of which is logged.
JnEvict(p, old_id, out) ==
  /\ connecting[p].pc = "evict"
  /\ old_id \in connecting[p].todo
  /\ conns' = IF old_id # connecting[p].conn
              THEN disconnect_connection(conns, old_id, out).reg
              ELSE conns
  /\ connecting' = [connecting EXCEPT ![p].todo = @ \ {old_id}]
  /\ UNCHANGED <<cmds, nextCmd, rate, window, calls, reached, last, creating,
                 breaker, edge>>

\* store_connection and the 200 response, once the loop is through.
JnStore(p) ==
  /\ connecting[p].pc = "evict"
  /\ connecting[p].todo = {}
  /\ conns' = store_connection(conns, connecting[p].conn, connecting[p].user,
                               connecting[p].type)
  /\ connecting' = [connecting EXCEPT ![p].pc = "done",
                                      ![p].resp = Resp(200, "Connected")]
  /\ UNCHANGED <<cmds, nextCmd, rate, window, calls, reached, last, creating,
                 breaker, edge>>

\* The transport takes the response of the connect invocation.
JnReturn(p) ==
  /\ connecting[p].pc = "done"
  /\ connecting' = [connecting EXCEPT ![p] = NoJoin]
  /\ UNCHANGED <<relay, creating, breaker, edge>>

\* ------------------------------------------------------------- edge pairs
\* edge-processing/services/edge_service.py: the two items of one
\* (user, profile) pair.  The forward edge is PK USER#<user>, SK
\* PROFILE#<b64>; the reverse edge is PK PROFILE#<b64>, SK USER#<user>.
INGESTION_TRIGGER_STATUSES == {"outgoing", "ally", "followed"}
Profiles == {"p1"}
EdgeStatuses == {"possible", "ally"}

\* base64.urlsafe_b64encode(profile_id.encode()).decode(): injective.
b64(profile_id) == <<"b64", profile_id>>

EdgeKeys == Users \X {b64(p) : p \in Profiles}

NoEdge == [exists |-> FALSE, status |-> "none", attempts |-> 0, ragstack_ingested |-> FALSE]
NoPair == [fwd |-> NoEdge, rev |-> NoEdge]

\* table.put_item(Item=user_profile_edge): the forward item is replaced whole.
put_forward(tbl, key, status) ==
  [tbl EXCEPT ![key].fwd = [NoEdge EXCEPT !.exists = TRUE, !.status = status]]

\* table.update_item on the reverse key: status set, attempts =
\* if_not_exists(attempts, 0) + 1; the item is created when absent.
update_reverse(tbl, key, status) ==
  [tbl EXCEPT ![key].rev = [@ EXCEPT !.exists = TRUE, !.status = status,
                                      !.attempts = @ + 1]]

\* table.delete_item on the forward key (the compensating delete).
delete_forward(tbl, key) ==
  [tbl EXCEPT ![key].fwd = NoEdge]

\* _update_ingestion_flag: update_item on the forward key; a failure is logged.
update_ingestion_flag(tbl, key, flagOk) ==
  IF flagOk THEN [tbl EXCEPT ![key].fwd.exists = TRUE, ![key].fwd.ragstack_ingested = TRUE]
  ELSE tbl

EdgeResult(tbl, raised, ingested) ==
  [tbl |-> tbl, raised |-> raised, ragstack_ingested |-> ingested]

\* EdgeService.upsert_status.  putOk, updOk, delOk, flagOk: whether the
\* table answers the put of the forward edge, the update of the reverse
\* edge, the compensating delete and the ingestion-flag update; ingestOk:
\* whether _trigger_ragstack_ingestion reports success.
upsert_status(tbl, user_id, profile_id, status, putOk, updOk, delOk, ingestOk, flagOk) ==
  LET key == <<user_id, b64(profile_id)>> IN
  IF ~putOk THEN EdgeResult(tbl, TRUE, FALSE)
  ELSE LET tbl1 == put_forward(tbl, key, status) IN
  IF ~updOk
  THEN IF delOk THEN EdgeResult(delete_forward(tbl1, key), TRUE, FALSE)
       ELSE EdgeResult(tbl1, TRUE, FALSE)
  ELSE LET tbl2 == update_reverse(tbl1, key, status) IN
  IF status \in INGESTION_TRIGGER_STATUSES /\ ingestOk
  THEN EdgeResult(update_ingestion_flag(tbl2, key, flagOk), FALSE, TRUE)
  ELSE EdgeResult(tbl2, FALSE, FALSE)

EdgeLast(op, user, profile, status, env, raised) ==
  [op |-> op, user |-> user, profile |-> profile, status |-> status, env |-> env,
   raised |-> raised, seq |-> 1 - edgeLast.seq]

UpsertStatus(user_id, profile_id, status, putOk, updOk, delOk, ingestOk, flagOk) ==
  /\ edges[<<user_id, b64(profile_id)>>].rev.attempts < MaxAttempts
  /\ LET r == upsert_status(edges, user_id, profile_id, status,
                            putOk, updOk, delOk, ingestOk, flagOk)
     IN /\ edges' = r.tbl
        /\ edgeLast' = EdgeLast("upsert_status", user_id, profile_id, status,
                                <<putOk, updOk, delOk>>, r.raised)
  /\ UNCHANGED <<relay, breaker, stepwise>>

\* ---------------------------------------------------------- specification
Init ==
  /\ conns = [c \in ConnIds |-> NoConn]
  /\ cmds = [k \in CmdIds |-> NoCmd]
  /\ nextCmd = 1
  /\ rate = [u \in Users |-> [w \in Windows |-> 0]]
  /\ window = 0
  /\ calls = [u \in Users |-> [w \in Windows |-> 0]]
  /\ reached = [u \in Users |-> [w \in Windows |-> 0]]
  /\ last = Idle
  /\ cb = NewBreaker
  /\ clock = 0
  /\ cbLast = [op |-> "none", invoked |-> FALSE, raised |-> "none", streak |-> 0,
               seq |-> 0]
  /\ creating = [p \in Procs |-> NoProc]
  /\ connecting = [p \in Joiners |-> NoJoin]
  /\ edges = [key \in EdgeKeys |-> NoPair]
  /\ edgeLast = [op |-> "none", user |-> "none", profile |-> "none", status |-> "none",
                 env |-> <<>>, raised |-> FALSE, seq |-> 0]

ConnectAny ==
  \E c \in ConnIds, t \in ClientTypes \cup {"other"}, tok \in Tokens : Connect(c, t, tok)

ConnectValid ==
  \E c \in ConnIds, t \in ClientTypes, u \in Users : Connect(c, t, u)

ConnectAgent ==
  \E c \in ConnIds : Connect(c, "agent", "u1")

DisconnectAny ==
  \E c \in ConnIds : Disconnect(c)

HeartbeatAny ==
  \E c \in ConnIds, out \in Outcomes : Heartbeat(c, out)

UnknownAny ==
  \E c \in ConnIds : Unknown(c)

\* the command ids handed out so far and one that was not; 0 is no id
EventAny ==
  \E a \in EventActions, c \in ConnIds, k \in 0..nextCmd : Event(a, c, k)

GetAny ==
  \E u \in Users, k \in 1..nextCmd : GetStatus(u, k)

\* the well-formed create calls made so far
CallsMade ==
  Cardinality({x \in Users \X Windows \X (1..MaxCalls) : calls[x[1]][x[2]] >= x[3]})

\* create with the counter store reachable, by a user whose agent is
\* registered, for the commands of RelayCmdIds
CreateRelay ==
  \E u \in Users \cup {"none"}, hasType \in BOOLEAN :
    /\ u # "none" /\ hasType => get_user_connections(conns, u, "agent") # {}
    /\ Create(u, hasType, TRUE)
    /\ \A k \in CmdIds \ RelayCmdIds : ~cmds'[k].exists

\* create whatever the counter store answers, MaxCalls times in all
CreateAny ==
  \E u \in Users, hasType \in BOOLEAN :
  \E storeUp \in IF hasType THEN BOOLEAN ELSE {TRUE} :
    /\ CallsMade < MaxCalls
    /\ Create(u, hasType, storeUp)

\* The relay: every handler, the counter store reachable, one window.
Next ==
  \/ ConnectValid
  \/ DisconnectAny
  \/ CreateRelay
  \/ GetAny
  \/ EventAny
  \/ HeartbeatAny
  \/ UnknownAny
  \/ Return

Spec == Init /\ [][Next]_vars

\* The connection lifecycle alone: connect requests of every kind,
\* disconnects, and the gone-cleanup of a send (the heartbeat echo).
NextConn ==
  \/ ConnectAny
  \/ DisconnectAny
  \/ HeartbeatAny
  \/ Return

SpecConn == Init /\ [][NextConn]_vars

\* The dispatcher's rate limit: create under every answer of the counter
\* store, over several windows.
NextRate ==
  \/ ConnectAgent
  \/ CreateAny
  \/ Tick
  \/ Return

SpecRate == Init /\ [][NextRate]_vars

\* The circuit breaker: its public methods in any order, and the clock.
NextBreaker ==
  \/ \E ok \in BOOLEAN : CbCall(ok)
  \/ CbOnSuccess
  \/ CbOnFailure
  \/ CbState
  \/ CbReset
  \/ Elapse

SpecBreaker == Init /\ [][NextBreaker]_vars

\* The eviction loop with more than one incumbent: the registry has room
\* for one connection more than the relay follows, so that a connect
\* request can meet two incumbents of its (user, clientType) (the second
\* of them registered while the eviction of the first failed).
EvictConns == MaxConns + 1
EvictIds == 1..EvictConns

InitEvict ==
  /\ conns = [c \in EvictIds |-> NoConn]
  /\ cmds = [k \in CmdIds |-> NoCmd]
  /\ nextCmd = 1
  /\ rate = [u \in Users |-> [w \in Windows |-> 0]]
  /\ window = 0
  /\ calls = [u \in Users |-> [w \in Windows |-> 0]]
  /\ reached = [u \in Users |-> [w \in Windows |-> 0]]
  /\ last = Idle
  /\ cb = NewBreaker
  /\ clock = 0
  /\ cbLast = [op |-> "none", invoked |-> FALSE, raised |-> "none", streak |-> 0,
               seq |-> 0]
  /\ creating = [p \in Procs |-> NoProc]
  /\ connecting = [p \in Joiners |-> NoJoin]
  /\ edges = [key \in EdgeKeys |-> NoPair]
  /\ edgeLast = [op |-> "none", user |-> "none", profile |-> "none", status |-> "none",
                 env |-> <<>>, raised |-> FALSE, seq |-> 0]

ConnectEvict ==
  \E c \in EvictIds, t \in ClientTypes, u \in Users : Connect(c, t, u)

DisconnectEvict ==
  \E c \in EvictIds : Disconnect(c)

NextEvict ==
  \/ ConnectEvict
  \/ DisconnectEvict
  \/ Return

SpecEvict == InitEvict /\ [][NextEvict]_vars

\* upsert_status alone, each of its table calls answered or failed.
UpsertAny ==
  \E u \in Users, p \in Profiles, st \in EdgeStatuses :
  \E putOk, updOk, delOk, ingestOk, flagOk \in BOOLEAN :
    UpsertStatus(u, p, st, putOk, updOk, delOk, ingestOk, flagOk)

NextEdge ==
  UpsertAny

SpecEdge == Init /\ [][NextEdge]_vars

\* A create invocation call by call, beside the events its agent sends
\* once it has the execute message, and the connect requests.
RaceCheck ==
  \E p \in RaceProcs, u \in Users \cup {"none"}, hasType \in BOOLEAN : CrCheck(p, u, hasType, TRUE)

RaceLookup == \E p \in RaceProcs : CrLookup(p)
RacePut == \E p \in RaceProcs : CrPut(p)
RaceSend == \E p \in RaceProcs, out \in Outcomes : CrSend(p, out)
RaceUpdate == \E p \in RaceProcs : CrUpdate(p)
RaceNotify == \E p \in RaceProcs : CrNotify(p)

\* an event the agent sends for a command whose execute message it has
RaceEvent ==
  \E p \in RaceProcs, a \in EventActions :
    /\ creating[p].ret = "true"
    /\ Event(a, creating[p].agent, creating[p].cmd)

NextRace ==
  \/ ConnectValid
  \/ RaceCheck
  \/ RaceLookup
  \/ RacePut
  \/ RaceSend
  \/ RaceUpdate
  \/ RaceNotify
  \/ RaceEvent
  \/ Return

SpecRace == Init /\ [][NextRace]_vars

\* Concurrent create invocations and the rate-limit counter, the counter
\* store reachable.
ConcCheck ==
  \E p \in Procs, u \in Users, hasType \in BOOLEAN : CrCheck(p, u, hasType, TRUE)

ConcLookup == \E p \in Procs : CrLookup(p)

NextRateConc ==
  \/ ConcCheck
  \/ ConcLookup
  \/ Tick

SpecRateConc == Init /\ [][NextRateConc]_vars

\* Concurrent connect invocations; the transport answers every forced
\* disconnect (terminated or already gone).
Answered == {"ok", "gone"}

JoinQuery ==
  \E p \in Joiners, c \in ConnIds, t \in ClientTypes \cup {"other"}, tok \in Tokens :
    JnQuery(p, c, t, tok)

JoinEvict == \E p \in Joiners, old_id \in ConnIds, out \in Answered : JnEvict(p, old_id, out)
JoinStore == \E p \in Joiners : JnStore(p)
JoinReturn == \E p \in Joiners : JnReturn(p)

NextJoin ==
  \/ JoinQuery
  \/ JoinEvict
  \/ JoinStore
  \/ JoinReturn
  \/ DisconnectAny
  \/ Return

SpecJoin == Init /\ [][NextJoin]_vars

\* ------------------------------------------------------------------ claims
Terminal == {"completed", "failed"}
WellFormed(l) == l.op = "create" /\ l.user # "none" /\ l.env[1]

\* C1 (as stated): after any sequence of accepted connect requests for one
\* (userId, clientType), the registry holds at most one Connection record
\* for that pair.
C1_AtMostOnePerType ==
  \A u \in Users, t \in ClientTypes :
    Cardinality(get_user_connections(conns, u, t)) <= 1

\* C1 (amended): after an accepted connect for (userId, clientType), the
\* registry holds for that pair the new connection and exactly those
\* incumbents whose forced disconnect failed with a transport error other
\* than gone; when no forced disconnect failed so, the new one alone.
C1_EvictedUnlessTransportError ==
  (last.op = "connect" /\ last.resp.code = 200) =>
    get_user_connections(conns, last.user, conns[last.conn].clientType)
      = {last.conn} \cup {c \in DOMAIN last.env : last.env[c] = "error"}

C1_Witness ==
  /\ last.op = "connect" /\ last.resp.code = 200
  /\ DOMAIN last.env # {}
  /\ \A c \in DOMAIN last.env : last.env[c] # "error"
  /\ get_user_connections(conns, last.user, conns[last.conn].clientType) = {last.conn}

\* C2: a progress, result or error event that references a command of user
\* A and arrives on a registered connection of another user B is answered
\* 'Not authorized', leaves the command store unchanged and pushes nothing.
C2_OwnershipIsolation ==
  [][\A k \in CmdIds :
       (/\ last'.op \in EventActions /\ last'.cmd = k
        /\ cmds[k].exists /\ conns[last'.conn].exists
        /\ conns[last'.conn].userSub # cmds[k].cognitoSub)
       => /\ last'.resp = Resp(200, "Not authorized")
          /\ cmds' = cmds
          /\ last'.pushes = {}]_vars

C2_Witness ==
  /\ last.op \in EventActions
  /\ last.resp.body = "Not authorized"
  /\ last.cmd \in CmdIds
  /\ get_user_connections(conns, cmds[last.cmd].cognitoSub, "browser") # {}

\* C3 (as stated): once a command is completed or failed, no progress,
\* result or error event changes its status.
C3_TerminalIsSink ==
  last.op \in EventActions => \A tr \in last.trans : tr[1] \notin Terminal

\* C4 (as stated): every status change follows pending -> dispatched ->
\* executing -> completed | failed, or is dispatched -> failed.
C4_PathOnly ==
  last.trans \subseteq {<<"pending", "dispatched">>, <<"dispatched", "executing">>,
                        <<"executing", "completed">>, <<"executing", "failed">>,
                        <<"dispatched", "failed">>}

\* C4 (amended): the dispatcher changes a status only from pending, to
\* dispatched (push delivered) or to failed (push gone); the relay changes
\* it only to executing (progress), completed (result) or failed (error),
\* from whatever status is stored; no other handler changes a status.
C4_StatusWritesByHandler ==
  \A tr \in last.trans :
    \/ last.op = "create" /\ tr \in {<<"pending", "dispatched">>, <<"pending", "failed">>}
    \/ last.op = "progress" /\ tr[2] = "executing"
    \/ last.op = "result" /\ tr[2] = "completed"
    \/ last.op = "error" /\ tr[2] = "failed"

C4_Witness ==
  last.op = "create" /\ last.trans = {<<"pending", "failed">>}

\* C5: when the push of the execute message reports gone, create answers
\* 503 with the new commandId and status failed, the stored command reads
\* failed, was never written dispatched, and getStatus by the owner
\* returns failed.
C5_DispatchFailureSync ==
  (last.op = "create" /\ last.cmd # 0 /\ last.env[3] = "gone") =>
    /\ last.resp.code = 503
    /\ last.resp.commandId = last.cmd
    /\ last.resp.status = "failed"
    /\ cmds[last.cmd].status = "failed"
    /\ <<"pending", "dispatched">> \notin last.trans
    /\ GetCommand(cmds, last.cmd, last.user).code = 200
    /\ GetCommand(cmds, last.cmd, last.user).status = "failed"

C5_Witness ==
  /\ last.op = "create" /\ last.resp.code = 503
  /\ cmds[last.cmd].cognitoSub = last.user

\* C6 (as stated): of the create calls of one user in one window, calls
\* 1..RATE_LIMIT_MAX pass the rate-limit check and call RATE_LIMIT_MAX + 1
\* is answered 429 / RATE_LIMITED / retryAfter 60 with no command created
\* and no message sent.
C6_NthPassesNextRejected ==
  WellFormed(last) =>
    /\ calls[last.user][window] <= RATE_LIMIT_MAX => last.resp.code # 429
    /\ calls[last.user][window] = RATE_LIMIT_MAX + 1 =>
         /\ last.resp.code = 429 /\ last.resp.body = "RATE_LIMITED"
         /\ last.resp.retryAfter = 60
         /\ last.cmd = 0 /\ last.pushes = {}

\* C6 (amended): of the create calls of one user in one window whose
\* counter update reaches the counter store, the first RATE_LIMIT_MAX pass
\* and every later one is answered 429 / RATE_LIMITED / retryAfter 60 with
\* no command created and no message sent; a call whose counter update
\* fails with an infrastructure error passes and is not counted.
C6_RateLimitOnReachedCalls ==
  WellFormed(last) =>
    IF last.env[2]
    THEN /\ reached[last.user][window] <= RATE_LIMIT_MAX => last.resp.code # 429
         /\ reached[last.user][window] > RATE_LIMIT_MAX =>
              /\ last.resp.code = 429 /\ last.resp.body = "RATE_LIMITED"
              /\ last.resp.retryAfter = 60
              /\ last.cmd = 0 /\ last.pushes = {}
    ELSE last.resp.code # 429

C6_Witness ==
  /\ WellFormed(last) /\ last.resp.code = 429
  /\ reached[last.user][window] = RATE_LIMIT_MAX + 1
  /\ get_user_connections(conns, last.user, "agent") # {}

\* C7: getStatus answers a command owned by another user exactly as it
\* answers an id no command has: 404 with the same body, whatever the
\* other user's command holds.
C7_NotFoundEqualsForbidden ==
  (/\ last.op = "get" /\ last.cmd \in CmdIds /\ cmds[last.cmd].exists
   /\ cmds[last.cmd].cognitoSub # last.user)
  => /\ last.resp.code = 404
     /\ last.resp = GetCommand(cmds, MaxCmds + 1, last.user)

C7_Witness ==
  /\ last.op = "get" /\ last.cmd \in CmdIds /\ cmds[last.cmd].exists
  /\ cmds[last.cmd].cognitoSub # last.user
  /\ cmds[last.cmd].status = "completed"
  /\ last.resp.code = 404

\* C8 (as stated): once a result (an error) event was accepted for a
\* command, getStatus by its owner returns completed with the stored result
\* (failed with the error message).  The result and errorMessage attributes
\* are written by the accepted result and error events alone.
C8_PollReturnsOutcome ==
  \A k \in CmdIds :
    LET r == GetCommand(cmds, k, cmds[k].cognitoSub) IN
    /\ (cmds[k].exists /\ cmds[k].result # "none") =>
         r.status = "completed" /\ r.result = cmds[k].result
    /\ (cmds[k].exists /\ cmds[k].errorMessage # "none") =>
         r.status = "failed" /\ r.error = cmds[k].errorMessage

\* C9: disconnect answers 200 for every connectionId, registered or not;
\* afterwards no registry entry for it exists, no other entry has changed,
\* and a disconnect of an id without entry leaves the registry as it was.
C9_IdempotentDisconnect ==
  [][last'.op = "disconnect" =>
       /\ last'.resp = Resp(200, "Disconnected")
       /\ ~conns'[last'.conn].exists
       /\ \A c \in ConnIds \ {last'.conn} : conns'[c] = conns[c]
       /\ ~conns[last'.conn].exists => conns' = conns]_vars

C9_Witness ==
  /\ last.op = "disconnect" /\ last.resp.code = 200
  /\ last.user = "none"
  /\ \E c \in ConnIds : conns[c].exists

\* C10: a send the transport accepts returns delivered and leaves the
\* registry entry; a send the transport reports gone removes the entry and
\* returns false (create answers 503); any other transport error
\* propagates out of the handler and leaves the registry as it was.
C10_GatewaySend ==
  [][/\ (last'.op = "create" /\ last'.cmd # 0) =>
          LET a == last'.conn
              out == last'.env[3]
          IN /\ out = "ok" => conns'[a] = conns[a] /\ last'.resp.code # 503
                              /\ cmds'[last'.cmd].status = "dispatched"
             /\ out = "gone" => ~conns'[a].exists /\ last'.resp.code = 503
             /\ out = "error" => conns' = conns /\ last'.resp = Unhandled
     /\ last'.op = "heartbeat" =>
          LET c == last'.conn
              out == last'.env[1]
          IN /\ out = "ok" => conns' = conns /\ last'.resp.code = 200
             /\ out = "gone" => ~conns'[c].exists /\ last'.resp.code = 200
             /\ out = "error" => conns' = conns /\ last'.resp = Unhandled]_vars

C10_Witness ==
  /\ last.op = "heartbeat" /\ last.env[1] = "gone"
  /\ last.user # "none"
  /\ ~conns[last.conn].exists

\* C11: a forced disconnect the transport answers with terminated or with
\* already gone raises nothing and leaves no registry entry for the
\* connection, every other entry as it was; after an accepted connect no
\* incumbent whose forced disconnect got one of these answers is registered.
C11_ForceDisconnect ==
  /\ \A c \in ConnIds, out \in {"ok", "gone"} :
       LET r == disconnect_connection(conns, c, out)
       IN /\ ~r.raised
          /\ ~r.reg[c].exists
          /\ \A d \in ConnIds \ {c} : r.reg[d] = conns[d]
  /\ (last.op = "connect" /\ last.resp.code = 200) =>
       \A c \in DOMAIN last.env : last.env[c] # "error" => ~conns[c].exists

C11_Witness ==
  /\ last.op = "connect" /\ last.resp.code = 200
  /\ \E c \in DOMAIN last.env : last.env[c] = "gone" /\ ~conns[c].exists

\* C12: a connect request with a clientType outside {browser, agent} is
\* answered 400, one with a missing or invalid token or without sub claim
\* 401; a rejected request leaves the whole registry as it was (nobody is
\* evicted, the new id is not registered), and only a request with a valid
\* clientType and an identified user is accepted.
C12_RejectBeforeMutation ==
  [][last'.op = "connect" =>
       /\ last'.resp.code \in {200, 400, 401}
       /\ last'.resp.code = 200 =>
            /\ last'.user \in Users
            /\ conns'[last'.conn].clientType \in ClientTypes
            /\ conns'[last'.conn].userSub = last'.user
       /\ last'.resp.code # 200 =>
            /\ last'.env[1] \notin ClientTypes \/ last'.env[2] \notin Users
            /\ last'.resp.code = (IF last'.env[1] \notin ClientTypes THEN 400 ELSE 401)
            /\ conns' = conns
            /\ ~conns'[last'.conn].exists]_vars

C12_Witness ==
  /\ last.op = "connect" /\ last.resp.code = 401
  /\ last.env[1] = "agent"
  /\ \E c \in ConnIds : conns[c].exists /\ conns[c].clientType = "agent"

\* C13: a create call with a type that passes the rate-limit check, by a
\* user without registered agent connection, is answered 409 'No agent
\* connected'; it puts no command, hands out no command id, sends no
\* message and leaves the registry as it was; 409 is answered to no user
\* who has an agent connection.
C13_NoAgent ==
  [][(last'.op = "create" /\ WellFormed(last')) =>
       /\ (/\ last'.resp.code # 429
           /\ get_user_connections(conns, last'.user, "agent") = {})
          => /\ last'.resp = Resp(409, "No agent connected")
             /\ cmds' = cmds /\ nextCmd' = nextCmd /\ last'.cmd = 0
             /\ last'.pushes = {}
             /\ conns' = conns
       /\ last'.resp.code = 409 =>
            get_user_connections(conns, last'.user, "agent") = {}]_vars

C13_Witness ==
  /\ last.op = "create" /\ last.resp.code = 409
  /\ get_user_connections(conns, last.user, "agent") = {}
  /\ \E c \in ConnIds : conns[c].exists /\ conns[c].clientType = "agent"
  /\ \A k \in CmdIds : ~cmds[k].exists

\* C14: when the push of the execute message to the agent is delivered,
\* the stored command is dispatched and create answers 200 with the
\* commandId and status dispatched, whatever the transport answered to the
\* command_queued notifications of the user's browser connections.
C14_NotifyBestEffort ==
  (last.op = "create" /\ last.cmd # 0 /\ last.env[3] = "ok") =>
    /\ cmds[last.cmd].status = "dispatched"
    /\ last.resp = [Resp(200, "ok") EXCEPT !.commandId = last.cmd,
                                           !.status = "dispatched"]

\* C15: every invocation of the message-route handler (heartbeat,
\* progress, result, error, an unknown action, a missing commandId) ends
\* with a 200 response and every invocation of the dispatcher with a
\* structured response, whatever the transport answered to its pushes: no
\* exception leaves either handler.
C15_NoEscape ==
  /\ last.op \in EventActions \cup {"heartbeat", "unknown"} => last.resp.code = 200
  /\ last.op \in {"create", "get"} => last.resp # Unhandled

\* C16: an event on a connection of the command's owner writes its status
\* and fields (progress: executing and step/total/message; result:
\* completed and data; error: failed and code/message) and sends the
\* matching command_progress / command_result / command_error message,
\* with the same commandId and fields, to every browser connection
\* registered for the owner when the event arrived.
C16_EventEffects ==
  [][(last'.op \in EventActions /\ last'.resp.body \in {"ok", Unhandled.body}) =>
       LET k == last'.cmd
           f == last'.env
       IN /\ last'.op = "progress" =>
               cmds'[k].status = "executing" /\ cmds'[k].progress = f
          /\ last'.op = "result" =>
               cmds'[k].status = "completed" /\ cmds'[k].result = f[1]
          /\ last'.op = "error" =>
               /\ cmds'[k].status = "failed"
               /\ cmds'[k].errorCode = f[1] /\ cmds'[k].errorMessage = f[2]
          /\ \A b \in get_user_connections(conns, cmds[k].cognitoSub, "browser") :
               \E p \in last'.pushes :
                 p.to = b /\ p.msg = Msg(ForwardAction(last'.op), k, f)]_vars

\* C17: a create call whose counter update fails for another reason than
\* the limit condition passes the rate-limit check and goes on (to the
\* agent lookup, and to the command when an agent is registered), the
\* counter left as it was; 429 is answered only to a call whose counter
\* update reached the store and found the counter at RATE_LIMIT_MAX.
C17_FailOpen ==
  [][(last'.op = "create" /\ WellFormed(last')) =>
       /\ ~last'.env[2] =>
            /\ last'.resp.code # 429
            /\ rate' = rate
            /\ IF get_user_connections(conns, last'.user, "agent") = {}
               THEN last'.resp.code = 409
               ELSE last'.cmd # 0 /\ cmds'[last'.cmd].exists
       /\ last'.resp.code = 429 =>
            last'.env[2] /\ rate[last'.user][window] >= RATE_LIMIT_MAX]_vars

C17_Witness ==
  /\ last.op = "create" /\ WellFormed(last) /\ ~last.env[2]
  /\ rate[last.user][window] = RATE_LIMIT_MAX
  /\ last.cmd # 0 /\ cmds[last.cmd].exists

\* C18: a closed breaker has recorded fewer than failure_threshold failures
\* since the last success; it opens in the very step that records the
\* failure_threshold-th failure in a row and in no other; a recorded
\* success (or reset) puts the count of consecutive failures back to zero,
\* and any shorter run of failures leaves the breaker closed.
C18_TripRule ==
  [][/\ cb.state = "closed" => cbLast.streak < failure_threshold
     /\ (cb.state = "closed" /\ cbLast'.seq # cbLast.seq) =>
          /\ cb'.state \in {"closed", "open"}
          /\ cb'.state = "open" <=>
               (cbLast'.streak = cbLast.streak + 1 /\ cbLast'.streak = failure_threshold)
          /\ cb'.state = "closed" => cb'.failure_count = cbLast'.streak
          /\ (cbLast'.op \in {"on_success", "reset"} \/ (cbLast'.invoked /\ cbLast'.raised = "none"))
             => (cb'.failure_count = 0 /\ cb'.state = "closed")]_vars

C18_Witness ==
  /\ cb.state = "open" /\ cbLast.op = "call" /\ cbLast.raised = "func"
  /\ cbLast.streak = failure_threshold
  /\ cb.failure_count = failure_threshold

\* C19: a call() on an open breaker whose last failure is less than
\* recovery_timeout ago raises CircuitBreakerOpenError, does not invoke the
\* wrapped function and leaves every field of the breaker as it was.
C19_OpenRejects ==
  [][(/\ cbLast'.op = "call" /\ cbLast'.seq # cbLast.seq
      /\ cb.state = "open" /\ cb.last_failure_time # NoTime
      /\ clock - cb.last_failure_time < recovery_timeout) =>
       /\ cbLast'.raised = "open" /\ ~cbLast'.invoked
       /\ cb'.state = "open" /\ cb'.failure_count = cb.failure_count
       /\ cb' = cb]_vars

C19_Witness ==
  /\ cbLast.op = "call" /\ cbLast.raised = "open" /\ ~cbLast.invoked
  /\ cb.state = "open" /\ clock - cb.last_failure_time = recovery_timeout - 1

\* C20: an open breaker whose recovery_timeout has elapsed becomes
\* half_open when its state is read; a half_open breaker that has admitted
\* half_open_max_calls trial calls admits no more; a trial that succeeds
\* closes the breaker with the failure count at zero, a trial that fails
\* opens it again with the recovery timeout restarted; and the breaker
\* goes from open to closed only by a reset() or by a success recorded
\* once the recovery timeout has elapsed.
C20_Recovery ==
  [][cbLast'.seq # cbLast.seq =>
       LET due == cb.state = "open" /\ should_attempt_recovery(cb, clock)
           trial == cb.state = "half_open" \/ due
       IN /\ (due /\ cbLast'.op = "state") => cb'.state = "half_open"
          /\ (cbLast'.op = "call" /\ cb.state = "half_open"
                /\ cb.half_open_calls >= half_open_max_calls) => ~cbLast'.invoked
          /\ (cbLast'.op = "call" /\ trial /\ cbLast'.invoked) =>
               IF cbLast'.raised = "none"
               THEN cb'.state = "closed" /\ cb'.failure_count = 0
               ELSE cb'.state = "open" /\ cb'.last_failure_time = clock
          /\ (cb.state = "open" /\ cb'.state = "closed") =>
               cbLast'.op = "reset" \/ due]_vars

\* C24: when an accepted event is forwarded, a send to one browser
\* connection that fails (session gone, or any other transport error)
\* neither keeps the message from being sent to each other browser
\* connection registered for the owner when the event arrived, nor undoes
\* the update of the command the handler has written.
C24_FanOutPerConnection ==
  [][(last'.op \in EventActions /\ last'.resp.body \in {"ok", Unhandled.body}) =>
       LET k == last'.cmd
       IN /\ cmds' = EventUpdate(cmds, last'.op, k, last'.env)
          /\ \A b \in get_user_connections(conns, cmds[k].cognitoSub, "browser") :
               \E p \in last'.pushes : p.to = b]_vars

\* C30: a progress, result or error event that names a stored command and
\* arrives on a registered connection is accepted exactly when the
\* connection's user is the command's owner, whatever the connection's
\* clientType (browser as well as agent), and an accepted event writes its
\* update to the command.
C30_AuthorizationByUser ==
  [][(last'.op \in EventActions /\ last'.cmd # 0
      /\ conns[last'.conn].exists /\ get_command_item(cmds, last'.cmd).exists) =>
       LET accepted == last'.resp.body \in {"ok", Unhandled.body}
       IN /\ accepted <=> conns[last'.conn].userSub = cmds[last'.cmd].cognitoSub
          /\ accepted => cmds' = EventUpdate(cmds, last'.op, last'.cmd, last'.env)]_vars

\* A result sent on a browser connection of the owner has completed the command.
C30_Witness ==
  /\ last.op = "result" /\ last.resp.body = "ok"
  /\ conns[last.conn].exists /\ conns[last.conn].clientType = "browser"
  /\ conns[last.conn].userSub = cmds[last.cmd].cognitoSub
  /\ <<"dispatched", "completed">> \in last.trans
  /\ cmds[last.cmd].result = last.env[1]

\* C26 (as stated): a heartbeat sends exactly one echo to the sending
\* connection and changes no stored command and no registry item.
C26_HeartbeatNoMutation ==
  [][last'.op = "heartbeat" =>
       /\ last'.pushes = {Push(last'.conn, Msg("heartbeat", 0, <<"echo">>), last'.env[1])}
       /\ cmds' = cmds
       /\ conns' = conns]_vars

\* C26 (amended): a heartbeat sends exactly one echo to the sending
\* connection and changes no stored command; the registry is unchanged
\* unless the transport reports the sender's session gone, and then exactly
\* the sender's registry item is removed.
C26_HeartbeatMutatesOnlyGone ==
  [][last'.op = "heartbeat" =>
       /\ last'.pushes = {Push(last'.conn, Msg("heartbeat", 0, <<"echo">>), last'.env[1])}
       /\ cmds' = cmds
       /\ conns' = IF last'.env[1] = "gone" THEN delete_connection(conns, last'.conn)
                   ELSE conns]_vars

\* The echo of a registered sender found the session gone: the handler
\* answered 200 and the sender's item is no longer in the registry, while
\* a command is stored.
C26_Witness ==
  /\ last.op = "heartbeat" /\ last.env = <<"gone">> /\ last.resp = Resp(200, "ok")
  /\ last.user # "none" /\ ~conns[last.conn].exists
  /\ \E k \in CmdIds : cmds[k].exists

\* C27: in every state of the command store, a command carries a result
\* only if its status is completed, and an errorCode or errorMessage only
\* if its status is failed.
C27_FieldsMatchStatus ==
  \A k \in CmdIds :
    /\ cmds[k].result # "none" => cmds[k].status = "completed"
    /\ (cmds[k].errorCode # "none" \/ cmds[k].errorMessage # "none") =>
         cmds[k].status = "failed"

\* C25: a connect request with a valid clientType and an identified user
\* registers the new connection and answers 200 whatever the forced
\* disconnects of the incumbents answered; an incumbent whose forced
\* disconnect failed stays registered, and every other incumbent is
\* evicted all the same, whichever of them failed.
C25_EvictionBestEffort ==
  [][(last'.op = "connect" /\ last'.user \in Users /\ last'.resp.code # 400) =>
       LET c == last'.conn
           incumbents == {o \in DOMAIN conns :
                            /\ conns[o].exists
                            /\ conns[o].userSub = conns'[c].userSub
                            /\ conns[o].clientType = conns'[c].clientType}
       IN /\ last'.resp = Resp(200, "Connected")
          /\ conns'[c].exists /\ conns'[c].userSub = last'.user
          /\ DOMAIN last'.env = incumbents
          /\ \A o \in incumbents :
               conns'[o] = IF last'.env[o] = "error" THEN conns[o] ELSE NoConn
          /\ \A o \in DOMAIN conns \ (incumbents \cup {c}) : conns'[o] = conns[o]]_vars

\* A connect request met two incumbents; the forced disconnect of one
\* failed and the other was evicted, and the new connection is registered.
C25_Witness ==
  /\ last.op = "connect" /\ last.resp = Resp(200, "Connected")
  /\ conns[last.conn].exists
  /\ \E o1, o2 \in DOMAIN last.env :
       /\ last.env[o1] = "error" /\ conns[o1].exists
       /\ last.env[o2] = "ok" /\ ~conns[o2].exists

\* C21: whatever the interleaving of a create invocation with the events
\* its agent sends for the command just pushed, no write of the dispatcher
\* replaces a status an event has written (executing, completed, failed):
\* a command the agent's result completed stays completed when create's
\* update of the status comes after it.
C21_DispatchedNeverOverwrites ==
  [][creating' # creating =>
       \A k \in CmdIds :
         (cmds[k].exists /\ cmds[k].status \in {"executing", "completed", "failed"}) =>
           cmds'[k].status = cmds[k].status]_vars

\* C28: whenever the agent has been delivered the execute message of a
\* command id, a command with that id is stored and is owned by the user
\* who made the create call; and no event the agent sends for that id on
\* its connection is answered 'Command not found'.
C28_PersistBeforePush ==
  \A p \in Procs :
    creating[p].ret = "true" =>
      /\ get_command_item(cmds, creating[p].cmd).exists
      /\ get_command_item(cmds, creating[p].cmd).cognitoSub = creating[p].user
      /\ (last.op \in EventActions /\ last.cmd = creating[p].cmd) =>
           last.resp.body # "Command not found"

\* The agent's progress event was accepted while the create invocation
\* that pushed the command had not yet written the status after the push.
C28_Witness ==
  \E p \in Procs :
    /\ creating[p].pc = "update" /\ creating[p].ret = "true"
    /\ last.op = "progress" /\ last.cmd = creating[p].cmd /\ last.conn = creating[p].agent
    /\ last.resp.body = "ok"
    /\ cmds[creating[p].cmd].status = "executing"

\* C23: of the create invocations of one user that overlap in one window,
\* the counter store reachable, at most RATE_LIMIT_MAX pass the rate-limit
\* check, whatever the order of their calls, and no stored counter ever
\* exceeds RATE_LIMIT_MAX.
C23_ConcurrentRateLimit ==
  \A u \in Users, w \in Windows :
    /\ rate[u][w] <= RATE_LIMIT_MAX
    /\ Cardinality({p \in Procs : /\ creating[p].user = u /\ creating[p].w = w
                                  /\ creating[p].passed}) <= RATE_LIMIT_MAX

\* RATE_LIMIT_MAX invocations of one user have passed the check and are
\* still in flight when one more of the same window is answered 429.
C23_Witness ==
  \E u \in Users, w \in Windows :
    /\ rate[u][w] = RATE_LIMIT_MAX
    /\ Cardinality({p \in Procs : /\ creating[p].user = u /\ creating[p].w = w
                                  /\ creating[p].passed
                                  /\ creating[p].pc = "lookup"}) = RATE_LIMIT_MAX
    /\ \E p \in Procs : /\ creating[p].user = u /\ creating[p].w = w
                        /\ creating[p].pc = "done" /\ creating[p].resp.code = 429

\* C22: once no connect invocation is in flight, the registry holds at
\* most one connection for each (user, clientType), also when the
\* invocations for one (user, clientType) overlapped with their query,
\* eviction and registration calls interleaved.
C22_ConcurrentConnectUnique ==
  (\A p \in Joiners : connecting[p].pc \in {"idle", "done"}) =>
    \A u \in Users, t \in ClientTypes :
      Cardinality(get_user_connections(conns, u, t)) <= 1

\* C29: after a call of upsert_status has returned or raised, the forward
\* edge and the reverse edge of each (user, profile) both exist or both
\* do not, whatever the pair held before the call and whichever of the
\* call's table writes failed.
C29_NoHalfPair ==
  \A key \in EdgeKeys : edges[key].fwd.exists = edges[key].rev.exists

====
